---- MODULE Spec2Model ----
(***************************************************************************)
(* The PDFium N-API addon (src/native/pdfium/src): the document registry,  *)
(* the per-document page cache with its dirty flags, and the handlers the  *)
(* addon exports.  The host is single-threaded and synchronous, so every   *)
(* handler is one atomic action.  The PDFium library is modelled by the    *)
(* resources it hands out (documents, pages) and by the sequence of entry  *)
(* points the most recent handler invoked.                                 *)
(***************************************************************************)
EXTENDS Integers, Sequences, FiniteSets, TLC

\* ------------------------------------------------------------ bounds ----

\* openDocument succeeds at most this many times in a run.
MaxHandles == 2

\* ------------------------------------------------------------ inputs ----

\* The documents the host opens: their page count, the object kinds of
\* every page by object id (FPDFPageObj_GetType), the page size in points
\* <<width, height>> (FPDF_GetPageWidthF, FPDF_GetPageHeightF).
FPDF_GetPageCount(doc) == 2
ObjTypes == <<"text", "image">>
PageSizePt == <<612, 792>>

\* The first handle openDocument issues (g_nextHandle at load).
FirstHandle == 1

\* Handles a caller may pass; the last one is never issued.
HandleInputs == FirstHandle..(MaxHandles + 1)
PageInputs == (0 - 1)..FPDF_GetPageCount(1)
ObjectInputs == (0 - 1)..Len(ObjTypes)
\* A scale is the rational <<numerator, denominator>>.
ScaleInputs == {<<0, 1>>, <<1, 2000>>, <<2, 1>>}
FormatInputs == {"jpeg", "png"}
\* A pixel buffer's length with the width and height passed beside it.
BitmapInputs ==
  {[bufLen |-> 16, width |-> 2, height |-> 2],
   [bufLen |-> 4, width |-> 2, height |-> 2],
   [bufLen |-> 0, width |-> 0 - 1, height |-> 1],
   [bufLen |-> 0, width |-> 32768, height |-> 32768]}
\* The library call of a handler that fails, if any; the handler returns at
\* the first failure, so at most one matters.
Faults == {"none", "load", "prepare", "mutate"}

\* A null FPDF_DOCUMENT.
NullDoc == 0
\* A number that is no handle: handles are issued from FirstHandle up.
NoHandle == FirstHandle - 1
\* The library's pointers are opaque to the addon, which never compares or
\* orders them; a page resource is named by the document and index it was
\* loaded from and a serial number that tells simultaneous loads apart.
NullPage == <<0, 0, 0>>

\* ------------------------------------------------------------ errors ----

\* A pending JavaScript exception: its class, its message (without the
\* numbers spliced into it) and the range the message states, if any.
NoRange == <<>>
NoError == [class |-> "none", msg |-> "", range |-> NoRange]
Err(class, msg) == [class |-> class, msg |-> msg, range |-> NoRange]
ErrRange(class, msg, lo, hi) == [class |-> class, msg |-> msg, range |-> <<lo, hi>>]

\* ------------------------------------------------------------- state ----

VARIABLES
  g_documents,    \* handle -> FPDF_DOCUMENT
  g_pageCache,    \* handle -> (pageIndex -> CachedPage)
  g_nextHandle,   \* next handle to issue
  g_initialized,  \* FPDF_InitLibraryWithConfig has been called
  lib,            \* the library: its open documents and pages
  phase           \* "running" until the environment's cleanup hook has run

vars == <<g_documents, g_pageCache, g_nextHandle, g_initialized, lib, phase>>

CachedPage(page, dirty) == [page |-> page, dirty |-> dirty]

Min(S) == CHOOSE x \in S : \A y \in S : x <= y

\* A std::map with no keys.
EmptyMap == [k \in {} |-> 0]

\* ----------------------------------------------------------- library ----

\* While a handler runs the library record L also carries `calls`, the
\* entry points the handler has invoked so far, in order, each with the
\* resource passed or returned (a page, or <<document>>).
Call(name, res, ok) == [call |-> name, res |-> res, ok |-> ok]

Logged(L, name, res, ok) == [L EXCEPT !.calls = Append(@, Call(name, res, ok))]

\* The address of a new resource: the lowest one not in use.
FreshId(used) == Min({n \in 1..(Cardinality(used) + 1) : n \notin used})

FreshPage(pages, doc, pageIndex) ==
  <<doc, pageIndex, FreshId({q[3] : q \in {x \in DOMAIN pages : x[1] = doc /\ x[2] = pageIndex}})>>

\* How often the object graph of an open page has been mutated since it was
\* loaded or last regenerated: "none", "once" or "repeatedly".
MoreEdits(level) == IF level = "none" THEN "once" ELSE "repeatedly"

FPDF_InitLibraryWithConfig(L) == Logged(L, "FPDF_InitLibraryWithConfig", <<>>, TRUE)

FPDF_DestroyLibrary(L) ==
  Logged([L EXCEPT !.ub = @ \/ L.docs # {} \/ DOMAIN L.pages # {}],
         "FPDF_DestroyLibrary", <<>>, TRUE)

\* Returns <<library, document>>; the document is NullDoc when the load fails.
FPDF_LoadMemDocument(L, loadOk) ==
  IF loadOk
  THEN LET doc == FreshId(L.docs)
       IN  <<Logged([L EXCEPT !.docs = @ \cup {doc}], "FPDF_LoadMemDocument", <<doc>>, TRUE), doc>>
  ELSE <<Logged(L, "FPDF_LoadMemDocument", <<NullDoc>>, FALSE), NullDoc>>

\* Destroying a document whose pages are still open, or one that is not
\* open, is undefined in the library.
FPDF_CloseDocument(L, doc) ==
  Logged([L EXCEPT !.docs = @ \ {doc},
                   !.ub = @ \/ doc \notin L.docs
                            \/ \E q \in DOMAIN L.pages : q[1] = doc],
         "FPDF_CloseDocument", <<doc>>, TRUE)

\* Returns <<library, page>>; the page is NullPage when the load fails.
FPDF_LoadPage(L, doc, pageIndex, loadOk) ==
  IF pageIndex \in 0..(FPDF_GetPageCount(doc) - 1) /\ loadOk
  THEN LET page == FreshPage(L.pages, doc, pageIndex)
       IN  <<Logged([L EXCEPT !.pages = (page :> [edits |-> "none"]) @@ @,
                              !.ub = @ \/ doc \notin L.docs],
                    "FPDF_LoadPage", page, TRUE), page>>
  ELSE <<Logged(L, "FPDF_LoadPage", NullPage, FALSE), NullPage>>

\* Closing a page that is not open (a second close) is undefined in the library.
FPDF_ClosePage(L, page) ==
  Logged([L EXCEPT !.pages = [q \in DOMAIN @ \ {page} |-> @[q]],
                   !.ub = @ \/ page \notin DOMAIN L.pages],
         "FPDF_ClosePage", page, TRUE)

\* Rewrites the page's content stream from its object graph; on success the
\* graph holds no mutation the stream lacks.
FPDFPage_GenerateContent(L, page, ok) ==
  Logged([L EXCEPT !.pages = IF ok /\ page \in DOMAIN @ THEN [@ EXCEPT ![page].edits = "none"] ELSE @,
                   !.ub = @ \/ page \notin DOMAIN L.pages],
         "FPDFPage_GenerateContent", page, ok)

\* A mutation primitive (FPDFText_SetText, FPDFImageObj_LoadJpegFileInline,
\* FPDFImageObj_SetBitmap) applied to an object of the page.
Mutate(L, name, page, ok) ==
  Logged([L EXCEPT !.pages = IF ok /\ page \in DOMAIN @
                             THEN [@ EXCEPT ![page].edits = MoreEdits(@)] ELSE @,
                   !.ub = @ \/ page \notin DOMAIN L.pages],
         name, page, ok)

\* An entry point that only reads the page.
ReadPage(L, name, page) ==
  Logged([L EXCEPT !.ub = @ \/ page \notin DOMAIN L.pages], name, page, TRUE)

FPDF_SaveAsCopy(L, doc, ok) ==
  Logged([L EXCEPT !.ub = @ \/ doc \notin L.docs], "FPDF_SaveAsCopy", <<doc>>, ok)

FPDFPage_CountObjects(page) == Len(ObjTypes)

FPDFPageObj_GetType(objectId) == ObjTypes[objectId + 1]

\* ----------------------------------------------------- cache helpers ----

RequireDocument(documents, handle) ==
  IF handle \in DOMAIN documents THEN documents[handle] ELSE NullDoc

IsCached(cache, handle, pageIndex) ==
  handle \in DOMAIN cache /\ pageIndex \in DOMAIN cache[handle]

\* A faulty variant of AcquirePage that loads the page without looking in
\* the cache.
AcquirePageAlwaysLoads(cache, L, handle, doc, pageIndex, loadOk) ==
  LET r == FPDF_LoadPage(L, doc, pageIndex, loadOk)
  IN  [lib |-> r[1], page |-> r[2], fromCache |-> FALSE]

\* A faulty variant of AcquirePage that takes a dirty entry for stale and
\* loads the page afresh.
AcquirePageReloadsDirty(cache, L, handle, doc, pageIndex, loadOk) ==
  IF IsCached(cache, handle, pageIndex) /\ ~cache[handle][pageIndex].dirty
  THEN [lib |-> L, page |-> cache[handle][pageIndex].page, fromCache |-> TRUE]
  ELSE LET r == FPDF_LoadPage(L, doc, pageIndex, loadOk)
       IN  [lib |-> r[1], page |-> r[2], fromCache |-> FALSE]

\* Returns [lib, page, fromCache].
AcquirePage(cache, L, handle, doc, pageIndex, loadOk) ==
  IF IsCached(cache, handle, pageIndex)
  THEN [lib |-> L, page |-> cache[handle][pageIndex].page, fromCache |-> TRUE]
  ELSE LET r == FPDF_LoadPage(L, doc, pageIndex, loadOk)
       IN  [lib |-> r[1], page |-> r[2], fromCache |-> FALSE]

\* Faulty variants of ReleasePage: one that regenerates the page's content
\* before it lets go of it, one that closes the page whoever owns it, one
\* that never closes it.
ReleasePageRegenerates(L, handle, pageIndex, page, fromCache) ==
  LET L1 == FPDFPage_GenerateContent(L, page, TRUE)
  IN  IF ~fromCache THEN FPDF_ClosePage(L1, page) ELSE L1

ReleasePageAlwaysCloses(L, handle, pageIndex, page, fromCache) == FPDF_ClosePage(L, page)

ReleasePageLeaks(L, handle, pageIndex, page, fromCache) == L

ReleasePage(L, handle, pageIndex, page, fromCache) ==
  IF ~fromCache THEN FPDF_ClosePage(L, page) ELSE L

\* A faulty variant of CachePageDirty that stores the entry with the flag
\* left false.
CachePageClean(cache, handle, pageIndex, page) ==
  LET pages == IF handle \in DOMAIN cache THEN cache[handle] ELSE EmptyMap
      entry == pageIndex :> CachedPage(page, FALSE)
  IN  (handle :> (entry @@ pages)) @@ cache

\* A faulty variant of CachePageDirty that inserts the entry and does not
\* overwrite one that exists.
CachePageDirtyKeepsOld(cache, handle, pageIndex, page) ==
  LET pages == IF handle \in DOMAIN cache THEN cache[handle] ELSE EmptyMap
      entry == pageIndex :> CachedPage(page, TRUE)
  IN  (handle :> (pages @@ entry)) @@ cache

CachePageDirty(cache, handle, pageIndex, page) ==
  LET pages == IF handle \in DOMAIN cache THEN cache[handle] ELSE EmptyMap
      entry == pageIndex :> CachedPage(page, TRUE)
  IN  (handle :> (entry @@ pages)) @@ cache

\* A faulty variant of the erase that clears the whole cache.
EraseHandleClearsCache(cache, handle) == [k \in {} |-> cache[k]]

EraseHandle(cache, handle) == [k \in DOMAIN cache \ {handle} |-> cache[k]]

\* The loop of FlushAndCloseCachedPages over the entries not yet visited,
\* in key order.  Returns [lib, allOk].
\* A faulty variant of the loop that returns at the first regeneration
\* that fails.
RECURSIVE FlushLoopStopsAtFailure(_, _, _, _, _)
FlushLoopStopsAtFailure(L, pages, todo, regenFails, allOk) ==
  IF todo = {} THEN [lib |-> L, allOk |-> allOk]
  ELSE LET idx == Min(todo)
           cp == pages[idx]
           ok == idx \notin regenFails
           L1 == IF cp.dirty THEN FPDFPage_GenerateContent(L, cp.page, ok) ELSE L
       IN  IF cp.dirty /\ ~ok THEN [lib |-> L1, allOk |-> FALSE]
           ELSE FlushLoopStopsAtFailure(FPDF_ClosePage(L1, cp.page), pages, todo \ {idx},
                                        regenFails, allOk)

\* A faulty variant of the loop that regenerates the first entry only and
\* closes the others as they are.
RECURSIVE FlushLoopRegeneratesFirstOnly(_, _, _, _, _)
FlushLoopRegeneratesFirstOnly(L, pages, todo, regenFails, allOk) ==
  IF todo = {} THEN [lib |-> L, allOk |-> allOk]
  ELSE LET idx == Min(todo)
           cp == pages[idx]
           ok == idx \notin regenFails
           regen == cp.dirty /\ idx = Min(DOMAIN pages)
           L1 == IF regen THEN FPDFPage_GenerateContent(L, cp.page, ok) ELSE L
           L2 == FPDF_ClosePage(L1, cp.page)
       IN  FlushLoopRegeneratesFirstOnly(L2, pages, todo \ {idx}, regenFails,
                                         IF regen /\ ~ok THEN FALSE ELSE allOk)

RECURSIVE FlushLoop(_, _, _, _, _)
FlushLoop(L, pages, todo, regenFails, allOk) ==
  IF todo = {} THEN [lib |-> L, allOk |-> allOk]
  ELSE LET idx == Min(todo)
           cp == pages[idx]
           ok == idx \notin regenFails
           L1 == IF cp.dirty THEN FPDFPage_GenerateContent(L, cp.page, ok) ELSE L
           L2 == FPDF_ClosePage(L1, cp.page)
       IN  FlushLoop(L2, pages, todo \ {idx}, regenFails,
                     IF cp.dirty /\ ~ok THEN FALSE ELSE allOk)

\* A faulty variant of FlushAndCloseCachedPages that forgets the erase after
\* the loop.
FlushKeepsEntries(cache, L, handle, regenFails) ==
  IF handle \notin DOMAIN cache
  THEN [cache |-> cache, lib |-> L, allOk |-> TRUE]
  ELSE LET r == FlushLoop(L, cache[handle], DOMAIN cache[handle], regenFails, TRUE)
       IN  [cache |-> cache, lib |-> r.lib, allOk |-> r.allOk]

\* A faulty variant of FlushAndCloseCachedPages that keeps, open and dirty,
\* the entries whose regeneration failed, for a later flush to try again.
RECURSIVE FlushLoopSkipsFailed(_, _, _, _, _)
FlushLoopSkipsFailed(L, pages, todo, regenFails, allOk) ==
  IF todo = {} THEN [lib |-> L, allOk |-> allOk]
  ELSE LET idx == Min(todo)
           cp == pages[idx]
           ok == idx \notin regenFails
           L1 == IF cp.dirty THEN FPDFPage_GenerateContent(L, cp.page, ok) ELSE L
           failed == cp.dirty /\ ~ok
       IN  FlushLoopSkipsFailed(IF failed THEN L1 ELSE FPDF_ClosePage(L1, cp.page),
                                pages, todo \ {idx}, regenFails,
                                IF failed THEN FALSE ELSE allOk)

FlushRetainsFailedPages(cache, L, handle, regenFails) ==
  IF handle \notin DOMAIN cache
  THEN [cache |-> cache, lib |-> L, allOk |-> TRUE]
  ELSE LET r == FlushLoopSkipsFailed(L, cache[handle], DOMAIN cache[handle], regenFails, TRUE)
           kept == {i \in DOMAIN cache[handle] : cache[handle][i].dirty /\ i \in regenFails}
       IN  [cache |-> IF kept = {} THEN EraseHandle(cache, handle)
                      ELSE [cache EXCEPT ![handle] = [i \in kept |-> @[i]]],
            lib |-> r.lib, allOk |-> r.allOk]

\* Returns [cache, lib, allOk]; regeneration fails on the pages whose index
\* is in regenFails.
FlushAndCloseCachedPages(cache, L, handle, regenFails) ==
  IF handle \notin DOMAIN cache
  THEN [cache |-> cache, lib |-> L, allOk |-> TRUE]
  ELSE LET r == FlushLoop(L, cache[handle], DOMAIN cache[handle], regenFails, TRUE)
       IN  [cache |-> EraseHandle(cache, handle), lib |-> r.lib, allOk |-> r.allOk]

RECURSIVE CloseLoop(_, _, _)
CloseLoop(L, pages, todo) ==
  IF todo = {} THEN L
  ELSE LET idx == Min(todo)
       IN  CloseLoop(FPDF_ClosePage(L, pages[idx].page), pages, todo \ {idx})

\* Faulty variants of DiscardCachedPages: one that regenerates the dirty
\* pages as the flush does, one that erases the entries and leaves their
\* pages open.
DiscardRegenerates(cache, L, handle) ==
  IF handle \notin DOMAIN cache
  THEN [cache |-> cache, lib |-> L]
  ELSE [cache |-> EraseHandle(cache, handle),
        lib |-> FlushLoop(L, cache[handle], DOMAIN cache[handle], {}, TRUE).lib]

DiscardLeavesPagesOpen(cache, L, handle) ==
  IF handle \notin DOMAIN cache
  THEN [cache |-> cache, lib |-> L]
  ELSE [cache |-> EraseHandle(cache, handle), lib |-> L]

\* Returns [cache, lib].
DiscardCachedPages(cache, L, handle) ==
  IF handle \notin DOMAIN cache
  THEN [cache |-> cache, lib |-> L]
  ELSE [cache |-> EraseHandle(cache, handle),
        lib |-> CloseLoop(L, cache[handle], DOMAIN cache[handle])]

\* ----------------------------------------------------------- handlers ----

\* A handler maps the state s it is called in to what it leaves behind:
\* the state's fields as it assigned them, the library with its calls, the
\* pending exception and the value returned.  It starts from Entry(s).
Entry(s) ==
  [documents |-> s.documents, cache |-> s.cache, nextHandle |-> s.nextHandle,
   initialized |-> s.initialized,
   lib |-> [docs |-> s.lib.docs, pages |-> s.lib.pages, ub |-> s.lib.ub, calls |-> <<>>],
   err |-> NoError, ret |-> 0]

Thrown(r, e) == [r EXCEPT !.err = e]

EnsurePdfiumInit(r) ==
  IF r.initialized THEN r
  ELSE [r EXCEPT !.lib = FPDF_InitLibraryWithConfig(@), !.initialized = TRUE]

\* A faulty variant of OpenDocument that issues the lowest handle not in
\* the registry.
OpenDocumentReusesFreedHandle(s, argsOk, loadOk) ==
  LET r0 == EnsurePdfiumInit(Entry(s))
  IN  IF ~argsOk
      THEN Thrown(r0, Err("TypeError", "openDocument: first argument must be a Buffer"))
      ELSE LET ld == FPDF_LoadMemDocument(r0.lib, loadOk)
               r1 == [r0 EXCEPT !.lib = ld[1]]
               handle == FreshId(DOMAIN r1.documents)
           IN  IF ld[2] = NullDoc
               THEN Thrown(r1, Err("Error", "GetPdfiumErrorMessage"))
               ELSE [r1 EXCEPT !.nextHandle = @ + 1,
                               !.documents = (handle :> ld[2]) @@ @,
                               !.ret = handle]

OpenDocument(s, argsOk, loadOk) ==
  LET r0 == EnsurePdfiumInit(Entry(s))
  IN  IF ~argsOk
      THEN Thrown(r0, Err("TypeError", "openDocument: first argument must be a Buffer"))
      ELSE LET ld == FPDF_LoadMemDocument(r0.lib, loadOk)
               r1 == [r0 EXCEPT !.lib = ld[1]]
           IN  IF ld[2] = NullDoc
               THEN Thrown(r1, Err("Error", "GetPdfiumErrorMessage"))
               ELSE [r1 EXCEPT !.nextHandle = @ + 1,
                               !.documents = (r1.nextHandle :> ld[2]) @@ @,
                               !.ret = r1.nextHandle]

\* A faulty variant of CloseDocument that destroys the document without
\* discarding its cached pages.
CloseDocumentKeepsCache(s, argsOk, handle) ==
  LET r0 == Entry(s)
  IN  IF ~argsOk
      THEN Thrown(r0, Err("TypeError", "closeDocument: argument must be a numeric handle"))
      ELSE IF handle \notin DOMAIN r0.documents
      THEN Thrown(r0, Err("Error", "closeDocument: invalid handle"))
      ELSE [r0 EXCEPT !.lib = FPDF_CloseDocument(@, r0.documents[handle]),
                      !.documents = [k \in DOMAIN @ \ {handle} |-> @[k]]]

CloseDocument(s, argsOk, handle) ==
  LET r0 == Entry(s)
  IN  IF ~argsOk
      THEN Thrown(r0, Err("TypeError", "closeDocument: argument must be a numeric handle"))
      ELSE IF handle \notin DOMAIN r0.documents
      THEN Thrown(r0, Err("Error", "closeDocument: invalid handle"))
      ELSE LET d == DiscardCachedPages(r0.cache, r0.lib, handle)
           IN  [r0 EXCEPT !.cache = d.cache,
                          !.lib = FPDF_CloseDocument(d.lib, r0.documents[handle]),
                          !.documents = [k \in DOMAIN @ \ {handle} |-> @[k]]]

InvalidHandle == Err("Error", "Invalid document handle")

GetPageCount(s, argsOk, handle) ==
  LET r0 == Entry(s)
      doc == RequireDocument(r0.documents, handle)
  IN  IF ~argsOk
      THEN Thrown(r0, Err("TypeError", "getPageCount: argument must be a numeric handle"))
      ELSE IF doc = NullDoc THEN Thrown(r0, InvalidHandle)
      ELSE [r0 EXCEPT !.ret = FPDF_GetPageCount(doc)]

\* Faulty variants of SaveDocument: one that serializes whatever the flush
\* reports, one that serializes without flushing.
SaveDocumentIgnoresFlush(s, argsOk, handle, regenFails, saveOk) ==
  LET r0 == Entry(s)
      doc == RequireDocument(r0.documents, handle)
  IN  IF ~argsOk
      THEN Thrown(r0, Err("TypeError", "saveDocument: argument must be a numeric handle"))
      ELSE IF doc = NullDoc THEN Thrown(r0, InvalidHandle)
      ELSE LET f == FlushAndCloseCachedPages(r0.cache, r0.lib, handle, regenFails)
               r2 == [r0 EXCEPT !.cache = f.cache, !.lib = FPDF_SaveAsCopy(f.lib, doc, saveOk)]
           IN  IF ~saveOk
               THEN Thrown(r2, Err("Error", "saveDocument: FPDF_SaveAsCopy failed"))
               ELSE r2

SaveDocumentWithoutFlush(s, argsOk, handle, regenFails, saveOk) ==
  LET r0 == Entry(s)
      doc == RequireDocument(r0.documents, handle)
  IN  IF ~argsOk
      THEN Thrown(r0, Err("TypeError", "saveDocument: argument must be a numeric handle"))
      ELSE IF doc = NullDoc THEN Thrown(r0, InvalidHandle)
      ELSE LET r2 == [r0 EXCEPT !.lib = FPDF_SaveAsCopy(@, doc, saveOk)]
           IN  IF ~saveOk
               THEN Thrown(r2, Err("Error", "saveDocument: FPDF_SaveAsCopy failed"))
               ELSE r2

SaveDocument(s, argsOk, handle, regenFails, saveOk) ==
  LET r0 == Entry(s)
      doc == RequireDocument(r0.documents, handle)
  IN  IF ~argsOk
      THEN Thrown(r0, Err("TypeError", "saveDocument: argument must be a numeric handle"))
      ELSE IF doc = NullDoc THEN Thrown(r0, InvalidHandle)
      ELSE LET f == FlushAndCloseCachedPages(r0.cache, r0.lib, handle, regenFails)
               r1 == [r0 EXCEPT !.cache = f.cache, !.lib = f.lib]
           IN  IF ~f.allOk
               THEN Thrown(r1, Err("Error",
                      "saveDocument: FPDFPage_GenerateContent failed for a dirty page"))
               ELSE LET r2 == [r1 EXCEPT !.lib = FPDF_SaveAsCopy(@, doc, saveOk)]
                    IN  IF ~saveOk
                        THEN Thrown(r2, Err("Error", "saveDocument: FPDF_SaveAsCopy failed"))
                        ELSE r2

\* static_cast<int>(pt * scale + 0.5) for a scale > 0.
ScaledPixels(pt, scale) == (2 * pt * scale[1] + scale[2]) \div (2 * scale[2])

RenderPage(s, argsOk, handle, pageIndex, scale, loadOk, bitmapOk) ==
  LET r0 == Entry(s)
      doc == RequireDocument(r0.documents, handle)
      pageCount == FPDF_GetPageCount(doc)
  IN  IF ~argsOk
      THEN Thrown(r0, Err("TypeError", "renderPage: requires (handle, pageIndex, scale)"))
      ELSE IF doc = NullDoc THEN Thrown(r0, InvalidHandle)
      ELSE IF pageIndex < 0 \/ pageIndex >= pageCount
      THEN Thrown(r0, ErrRange("RangeError", "renderPage: pageIndex out of range",
                               0, pageCount - 1))
      ELSE IF scale[1] <= 0
      THEN Thrown(r0, Err("RangeError", "renderPage: scale must be > 0"))
      ELSE LET a == AcquirePage(r0.cache, r0.lib, handle, doc, pageIndex, loadOk)
               width == ScaledPixels(PageSizePt[1], scale)
               height == ScaledPixels(PageSizePt[2], scale)
               released == ReleasePage(a.lib, handle, pageIndex, a.page, a.fromCache)
           IN  IF a.page = NullPage
               THEN Thrown([r0 EXCEPT !.lib = a.lib], Err("Error", "renderPage: failed to load page"))
               ELSE IF width <= 0 \/ height <= 0
               THEN Thrown([r0 EXCEPT !.lib = released],
                           Err("Error", "renderPage: resulting bitmap size is zero"))
               ELSE IF ~bitmapOk
               THEN Thrown([r0 EXCEPT !.lib = released],
                           Err("Error", "renderPage: FPDFBitmap_Create failed"))
               ELSE [r0 EXCEPT !.lib = ReleasePage(
                                 ReadPage(a.lib, "FPDF_RenderPageBitmap", a.page),
                                 handle, pageIndex, a.page, a.fromCache)]

\* A faulty variant of ListPageObjects that keeps the page it loaded in the
\* cache instead of releasing it.
ListPageObjectsKeepsPage(s, argsOk, handle, pageIndex, loadOk) ==
  LET r0 == Entry(s)
      doc == RequireDocument(r0.documents, handle)
  IN  IF ~argsOk
      THEN Thrown(r0, Err("TypeError", "listPageObjects: requires (handle, pageIndex)"))
      ELSE IF doc = NullDoc THEN Thrown(r0, InvalidHandle)
      ELSE LET a == AcquirePage(r0.cache, r0.lib, handle, doc, pageIndex, loadOk)
           IN  IF a.page = NullPage
               THEN Thrown([r0 EXCEPT !.lib = a.lib],
                           Err("Error", "listPageObjects: failed to load page"))
               ELSE [r0 EXCEPT !.lib = ReadPage(a.lib, "FPDFPage_CountObjects", a.page),
                               !.cache = CachePageDirty(@, handle, pageIndex, a.page)]

ListPageObjects(s, argsOk, handle, pageIndex, loadOk) ==
  LET r0 == Entry(s)
      doc == RequireDocument(r0.documents, handle)
  IN  IF ~argsOk
      THEN Thrown(r0, Err("TypeError", "listPageObjects: requires (handle, pageIndex)"))
      ELSE IF doc = NullDoc THEN Thrown(r0, InvalidHandle)
      ELSE LET a == AcquirePage(r0.cache, r0.lib, handle, doc, pageIndex, loadOk)
           IN  IF a.page = NullPage
               THEN Thrown([r0 EXCEPT !.lib = a.lib],
                           Err("Error", "listPageObjects: failed to load page"))
               ELSE [r0 EXCEPT !.lib = ReleasePage(
                                 ReadPage(a.lib, "FPDFPage_CountObjects", a.page),
                                 handle, pageIndex, a.page, a.fromCache)]

\* A faulty variant of the edit handlers' shared part that enters the page
\* in the cache as soon as it has acquired it, before the checks and the
\* mutation.
EditPageCachesBeforeMutation(r0, name, primitive, kind, handle, pageIndex, objectId, fmtOk, prepOk, loadOk, mutOk) ==
  LET doc == RequireDocument(r0.documents, handle)
  IN  IF doc = NullDoc THEN Thrown(r0, InvalidHandle)
      ELSE LET a == AcquirePage(r0.cache, r0.lib, handle, doc, pageIndex, loadOk)
               cached == [r0 EXCEPT !.lib = a.lib,
                                    !.cache = CachePageDirty(@, handle, pageIndex, a.page)]
           IN  IF a.page = NullPage
               THEN Thrown([r0 EXCEPT !.lib = a.lib], Err("Error", name \o ": failed to load page"))
               ELSE IF \/ objectId < 0 \/ objectId >= FPDFPage_CountObjects(a.page)
                       \/ FPDFPageObj_GetType(objectId) # kind
                       \/ ~fmtOk \/ ~prepOk \/ ~mutOk
               THEN Thrown(cached, Err("Error", name \o ": failed"))
               ELSE [cached EXCEPT !.lib = Mutate(@, primitive, a.page, mutOk)]

\* The message of the error an edit handler throws when its mutation
\* primitive fails.
MutationFailed(name, primitive) ==
  IF primitive = "FPDFImageObj_LoadJpegFileInline"
  THEN name \o ": failed to load replacement image"
  ELSE name \o ": " \o primitive \o " failed"

\* The part the three edit handlers share, from RequireDocument to
\* CachePageDirty: `kind` is the object kind the mutation needs, `fmtOk`
\* whether the handler has a mutation for the format asked for, `prepOk`
\* whether what the mutation consumes could be built, `mutOk` whether the
\* library's mutation primitive succeeds.
EditPage(r0, name, primitive, kind, handle, pageIndex, objectId, fmtOk, prepOk, loadOk, mutOk) ==
  LET doc == RequireDocument(r0.documents, handle)
  IN  IF doc = NullDoc THEN Thrown(r0, InvalidHandle)
      ELSE LET a == AcquirePage(r0.cache, r0.lib, handle, doc, pageIndex, loadOk)
               objCount == FPDFPage_CountObjects(a.page)
               released == [r0 EXCEPT !.lib = ReleasePage(a.lib, handle, pageIndex, a.page, a.fromCache)]
               mutated == Mutate(a.lib, primitive, a.page, mutOk)
           IN  IF a.page = NullPage
               THEN Thrown([r0 EXCEPT !.lib = a.lib], Err("Error", name \o ": failed to load page"))
               ELSE IF objectId < 0 \/ objectId >= objCount
               THEN Thrown(released, ErrRange("RangeError", name \o ": objectId out of range",
                                              0, objCount - 1))
               ELSE IF FPDFPageObj_GetType(objectId) # kind
               THEN Thrown(released, Err("TypeError", name \o ": object is not of kind " \o kind))
               ELSE IF ~fmtOk
               THEN Thrown(released, Err("Error", name \o ": only 'jpeg' format is currently supported"))
               ELSE IF ~prepOk
               THEN Thrown(released, Err("Error", name \o ": FPDFBitmap_CreateEx failed"))
               ELSE IF ~mutOk
               THEN Thrown([r0 EXCEPT !.lib = ReleasePage(mutated, handle, pageIndex, a.page, a.fromCache)],
                           Err("Error", MutationFailed(name, primitive)))
               ELSE [r0 EXCEPT !.lib = mutated,
                               !.cache = CachePageDirty(@, handle, pageIndex, a.page)]

\* A faulty variant of EditTextObject that brings an object id out of range
\* to the nearest object instead of rejecting it.
EditTextObjectClampsObjectId(s, argsOk, handle, pageIndex, objectId, loadOk, mutOk) ==
  IF ~argsOk
  THEN Thrown(Entry(s), Err("TypeError", "editTextObject: requires (handle, pageIndex, objectId, newText)"))
  ELSE EditPage(Entry(s), "editTextObject", "FPDFText_SetText", "text",
                handle, pageIndex, IF objectId < 0 THEN 0 ELSE objectId, TRUE, TRUE, loadOk, mutOk)

EditTextObject(s, argsOk, handle, pageIndex, objectId, loadOk, mutOk) ==
  IF ~argsOk
  THEN Thrown(Entry(s), Err("TypeError", "editTextObject: requires (handle, pageIndex, objectId, newText)"))
  ELSE EditPage(Entry(s), "editTextObject", "FPDFText_SetText", "text",
                handle, pageIndex, objectId, TRUE, TRUE, loadOk, mutOk)

ReplaceImageObject(s, argsOk, handle, pageIndex, objectId, fmt, loadOk, mutOk) ==
  IF ~argsOk
  THEN Thrown(Entry(s), Err("TypeError", "replaceImageObject: requires (handle, pageIndex, objectId, imageData, format)"))
  ELSE EditPage(Entry(s), "replaceImageObject", "FPDFImageObj_LoadJpegFileInline", "image",
                handle, pageIndex, objectId, fmt = "jpeg", TRUE, loadOk, mutOk)

TwoTo30 == 1024 * 1024 * 1024
Int32Max == (TwoTo30 - 1) + TwoTo30
Int32Min == (0 - Int32Max) - 1

\* q * 4 in 32-bit two's complement, for a q that fits 32 bits.
Times4Wrapped(q) ==
  LET m == q % TwoTo30
  IN  4 * (IF m >= TwoTo30 \div 2 THEN m - TwoTo30 ELSE m)

\* int expectedSize = width * height * BYTES_PER_PIXEL: the values the
\* expression can take, for a width * height that fits 32 bits.  Signed
\* overflow is undefined; a build either wraps or, having assumed no
\* overflow, keeps a bound of the type.
ExpectedSizes(width, height) ==
  LET q == width * height
  IN  IF q < TwoTo30 \div 2 /\ q >= 0 - (TwoTo30 \div 2)
      THEN {4 * q}
      ELSE {Times4Wrapped(q), Int32Max, Int32Min}

\* FPDFBitmap_CreateEx returns no bitmap for a width or height <= 0.
ReplaceImageObjectBitmap(s, argsOk, handle, pageIndex, objectId, bufLen, width, height, expectedSize, loadOk, bitmapOk, mutOk) ==
  IF ~argsOk
  THEN Thrown(Entry(s), Err("TypeError", "replaceImageObjectBitmap: requires (handle, pageIndex, objectId, bgraData, width, height)"))
  ELSE IF bufLen < expectedSize
  THEN Thrown(Entry(s), Err("RangeError", "replaceImageObjectBitmap: bgraData buffer too small"))
  ELSE EditPage(Entry(s), "replaceImageObjectBitmap", "FPDFImageObj_SetBitmap", "image",
                handle, pageIndex, objectId, TRUE,
                bitmapOk /\ width > 0 /\ height > 0, loadOk, mutOk)

\* The page closes of Cleanup, over the cache entries not yet visited, in
\* the order of the two nested maps.
RECURSIVE CleanupPages(_, _, _)
CleanupPages(L, cache, todo) ==
  IF todo = {} THEN L
  ELSE LET k == CHOOSE x \in todo : \A y \in todo :
                  x[1] < y[1] \/ (x[1] = y[1] /\ x[2] <= y[2])
       IN  CleanupPages(FPDF_ClosePage(L, cache[k[1]][k[2]].page), cache, todo \ {k})

RECURSIVE CleanupDocuments(_, _, _)
CleanupDocuments(L, documents, todo) ==
  IF todo = {} THEN L
  ELSE LET id == Min(todo)
       IN  CleanupDocuments(FPDF_CloseDocument(L, documents[id]), documents, todo \ {id})

\* A faulty variant of Cleanup that closes the documents before the cached
\* pages.
CleanupDocumentsFirst(s) ==
  LET r0 == Entry(s)
      entries == UNION {{<<h, i>> : i \in DOMAIN r0.cache[h]} : h \in DOMAIN r0.cache}
      L1 == CleanupDocuments(r0.lib, r0.documents, DOMAIN r0.documents)
      L2 == CleanupPages(L1, r0.cache, entries)
  IN  [r0 EXCEPT !.cache = EmptyMap, !.documents = EmptyMap,
                 !.lib = IF r0.initialized THEN FPDF_DestroyLibrary(L2) ELSE L2,
                 !.initialized = FALSE]

\* The environment's cleanup hook.
Cleanup(s) ==
  LET r0 == Entry(s)
      entries == UNION {{<<h, i>> : i \in DOMAIN r0.cache[h]} : h \in DOMAIN r0.cache}
      L1 == CleanupPages(r0.lib, r0.cache, entries)
      L2 == CleanupDocuments(L1, r0.documents, DOMAIN r0.documents)
  IN  [r0 EXCEPT !.cache = EmptyMap, !.documents = EmptyMap,
                 !.lib = IF r0.initialized THEN FPDF_DestroyLibrary(L2) ELSE L2,
                 !.initialized = FALSE]

\* ------------------------------------------------------------ actions ----

\* The state the next handler is called in.
Cur ==
  [documents |-> g_documents, cache |-> g_pageCache, nextHandle |-> g_nextHandle,
   initialized |-> g_initialized, lib |-> lib]

Commit(r) ==
  /\ g_documents' = r.documents
  /\ g_pageCache' = r.cache
  /\ g_nextHandle' = r.nextHandle
  /\ g_initialized' = r.initialized
  /\ lib' = [docs |-> r.lib.docs, pages |-> r.lib.pages, ub |-> r.lib.ub]
  /\ UNCHANGED phase

\* What the callers pass.  An input a handler never reads on the path the
\* other inputs force is kept at one value: the object id and the fault
\* when the page index is out of range, the object id when the page load
\* fails, a fault in a call the object id keeps the handler from making.
InRange(pageIndex) == pageIndex \in 0..(FPDF_GetPageCount(1) - 1)

IsKind(objectId, kind) ==
  objectId \in 0..(Len(ObjTypes) - 1) /\ FPDFPageObj_GetType(objectId) = kind

EditRelevant(i, kind) ==
  /\ ~InRange(i.pageIndex) => i.objectId = 0 /\ i.fault = "none"
  /\ i.fault = "load" => i.objectId = 0
  /\ i.fault \in {"prepare", "mutate"} => IsKind(i.objectId, kind)

TextInputs ==
  {i \in [handle : HandleInputs, pageIndex : PageInputs, objectId : ObjectInputs,
          fault : {"none", "load", "mutate"}] : EditRelevant(i, "text")}

ImageInputs ==
  {i \in [handle : HandleInputs, pageIndex : PageInputs, objectId : ObjectInputs,
          fmt : FormatInputs, fault : {"none", "load", "mutate"}] :
     /\ EditRelevant(i, "image")
     /\ i.fmt # "jpeg" => i.fault = "none"
     /\ ~InRange(i.pageIndex) => i.fmt = "jpeg"}

\* The inputs after the first only vary what the size check sees, so they
\* go with one page index and the image object.
BitmapEditInputs ==
  {i \in [handle : HandleInputs, pageIndex : PageInputs, objectId : ObjectInputs,
          b : BitmapInputs, expectedSize : {0 - 4, 0, 16, Int32Max, Int32Min},
          fault : Faults] :
     /\ i.expectedSize \in ExpectedSizes(i.b.width, i.b.height)
     /\ EditRelevant(i, "image")
     /\ i.b.bufLen < i.expectedSize => i.pageIndex = 0 /\ i.objectId = 0 /\ i.fault = "none"
     /\ i.b.bufLen >= i.expectedSize /\ i.b # [bufLen |-> 16, width |-> 2, height |-> 2]
          => i.pageIndex = 0 /\ i.objectId = 1 /\ i.fault = "none"}

RenderInputs ==
  {i \in [handle : HandleInputs, pageIndex : PageInputs, scale : ScaleInputs,
          fault : {"none", "load", "prepare"}] :
     /\ ~InRange(i.pageIndex) => i.scale = <<2, 1>> /\ i.fault = "none"
     /\ i.scale # <<2, 1>> => i.fault = "none"}

ListInputs ==
  {i \in [handle : HandleInputs, pageIndex : PageInputs, fault : {"none", "load"}] :
     ~InRange(i.pageIndex) => i.fault = "none"}

\* A save's inputs in state s: the pages whose regeneration fails, and
\* whether the serialization succeeds.
SaveInputs(s) ==
  {i \in [handle : HandleInputs, regenFails : SUBSET (0..(FPDF_GetPageCount(1) - 1)),
          saveOk : BOOLEAN] :
     /\ i.regenFails \subseteq (IF i.handle \in DOMAIN s.cache
                                 THEN DOMAIN s.cache[i.handle] ELSE {})
     /\ i.regenFails # {} => i.saveOk}

TextResult(s, i) ==
  EditTextObject(s, TRUE, i.handle, i.pageIndex, i.objectId, i.fault # "load", i.fault # "mutate")

ImageResult(s, i) ==
  ReplaceImageObject(s, TRUE, i.handle, i.pageIndex, i.objectId, i.fmt,
                     i.fault # "load", i.fault # "mutate")

BitmapResult(s, i) ==
  ReplaceImageObjectBitmap(s, TRUE, i.handle, i.pageIndex, i.objectId, i.b.bufLen,
                           i.b.width, i.b.height, i.expectedSize,
                           i.fault # "load", i.fault # "prepare", i.fault # "mutate")

RenderResult(s, i) ==
  RenderPage(s, TRUE, i.handle, i.pageIndex, i.scale, i.fault # "load", i.fault # "prepare")

ListResult(s, i) == ListPageObjects(s, TRUE, i.handle, i.pageIndex, i.fault # "load")

SaveResult(s, i) == SaveDocument(s, TRUE, i.handle, i.regenFails, i.saveOk)

DoOpenDocument ==
  /\ phase = "running"
  /\ \E loadOk \in BOOLEAN :
       LET r == OpenDocument(Cur, TRUE, loadOk)
       IN  r.nextHandle <= MaxHandles + 1 /\ Commit(r)

DoCloseDocument ==
  /\ phase = "running"
  /\ \E handle \in HandleInputs : Commit(CloseDocument(Cur, TRUE, handle))

DoGetPageCount ==
  /\ phase = "running"
  /\ \E handle \in HandleInputs : Commit(GetPageCount(Cur, TRUE, handle))

DoSaveDocument ==
  /\ phase = "running"
  /\ \E i \in SaveInputs(Cur) : Commit(SaveResult(Cur, i))

DoRenderPage ==
  /\ phase = "running"
  /\ \E i \in RenderInputs : Commit(RenderResult(Cur, i))

DoListPageObjects ==
  /\ phase = "running"
  /\ \E i \in ListInputs : Commit(ListResult(Cur, i))

DoEditTextObject ==
  /\ phase = "running"
  /\ \E i \in TextInputs : Commit(TextResult(Cur, i))

DoReplaceImageObject ==
  /\ phase = "running"
  /\ \E i \in ImageInputs : Commit(ImageResult(Cur, i))

DoReplaceImageObjectBitmap ==
  /\ phase = "running"
  /\ \E i \in BitmapEditInputs : Commit(BitmapResult(Cur, i))

\* A call with too few arguments or an argument of the wrong type.
BadArgsResults(s) ==
  {OpenDocument(s, FALSE, TRUE), CloseDocument(s, FALSE, NoHandle),
   GetPageCount(s, FALSE, NoHandle), SaveDocument(s, FALSE, NoHandle, {}, TRUE),
   RenderPage(s, FALSE, NoHandle, 0, <<2, 1>>, TRUE, TRUE),
   ListPageObjects(s, FALSE, NoHandle, 0, TRUE),
   EditTextObject(s, FALSE, NoHandle, 0, 0, TRUE, TRUE),
   ReplaceImageObject(s, FALSE, NoHandle, 0, 0, "jpeg", TRUE, TRUE),
   ReplaceImageObjectBitmap(s, FALSE, NoHandle, 0, 0, 0, 1, 1, 4, TRUE, TRUE, TRUE)}

DoBadArgs ==
  /\ phase = "running"
  /\ \E r \in BadArgsResults(Cur) : Commit(r)

DoCleanup ==
  /\ phase = "running"
  /\ LET r == Cleanup(Cur)
     IN  /\ g_documents' = r.documents
         /\ g_pageCache' = r.cache
         /\ g_nextHandle' = r.nextHandle
         /\ g_initialized' = r.initialized
         /\ lib' = [docs |-> r.lib.docs, pages |-> r.lib.pages, ub |-> r.lib.ub]
         /\ phase' = "torndown"

\* Module registration (Init in addon.cc) has run; nothing is open.
Init ==
  /\ g_documents = EmptyMap
  /\ g_pageCache = EmptyMap
  /\ g_nextHandle = FirstHandle
  /\ g_initialized = FALSE
  /\ lib = [docs |-> {}, pages |-> EmptyMap, ub |-> FALSE]
  /\ phase = "running"

Next ==
  \/ DoOpenDocument
  \/ DoCloseDocument
  \/ DoGetPageCount
  \/ DoSaveDocument
  \/ DoRenderPage
  \/ DoListPageObjects
  \/ DoEditTextObject
  \/ DoReplaceImageObject
  \/ DoReplaceImageObjectBitmap
  \/ DoBadArgs
  \/ DoCleanup

Spec == Init /\ [][Next]_vars

\* ------------------------------------------------- handler outcomes ----

Tagged(op, h, r) == [op |-> op, h |-> h, r |-> r]

EditOps == {"editTextObject", "replaceImageObject", "replaceImageObjectBitmap"}

\* Every handler applied to state s with well-typed arguments: the
\* handler's name, the handle passed and the result.
EditOutcomes(s) ==
  {Tagged("editTextObject", i.handle, TextResult(s, i)) : i \in TextInputs}
  \cup {Tagged("replaceImageObject", i.handle, ImageResult(s, i)) : i \in ImageInputs}
  \cup {Tagged("replaceImageObjectBitmap", i.handle, BitmapResult(s, i)) : i \in BitmapEditInputs}

ReadOutcomes(s) ==
  {Tagged("renderPage", i.handle, RenderResult(s, i)) : i \in RenderInputs}
  \cup {Tagged("listPageObjects", i.handle, ListResult(s, i)) : i \in ListInputs}
  \cup {Tagged("getPageCount", h, GetPageCount(s, TRUE, h)) : h \in HandleInputs}

SaveOutcomes(s) ==
  {Tagged("saveDocument", i.handle, SaveResult(s, i)) : i \in SaveInputs(s)}

CloseOutcomes(s) ==
  {Tagged("closeDocument", h, CloseDocument(s, TRUE, h)) : h \in HandleInputs}

Outcomes(s) ==
  EditOutcomes(s) \cup ReadOutcomes(s) \cup SaveOutcomes(s) \cup CloseOutcomes(s)

\* The handlers that take no handle: openDocument, a call with bad
\* arguments, the cleanup hook.
OtherOutcomes(s) ==
  {Tagged("openDocument", NoHandle, OpenDocument(s, TRUE, ok)) : ok \in BOOLEAN}
  \cup {Tagged("badArgs", NoHandle, r) : r \in BadArgsResults(s)}
  \cup {Tagged("Cleanup", NoHandle, Cleanup(s))}

\* Handles issued earlier and closed since.
ClosedHandles(s) == {h \in FirstHandle..(s.nextHandle - 1) : h \notin DOMAIN s.documents}

Entries(cache) == UNION {{<<h, i>> : i \in DOMAIN cache[h]} : h \in DOMAIN cache}

CachePages(cache) == {cache[e[1]][e[2]].page : e \in Entries(cache)}

PagesOf(cache, handle) ==
  IF handle \in DOMAIN cache
  THEN {cache[handle][i].page : i \in DOMAIN cache[handle]} ELSE {}

DirtyPagesOf(cache, handle) ==
  IF handle \in DOMAIN cache
  THEN {cache[handle][i].page : i \in {j \in DOMAIN cache[handle] : cache[handle][j].dirty}}
  ELSE {}

CallsTo(r, name) == {k \in DOMAIN r.lib.calls : r.lib.calls[k].call = name}

CallCount(r, name, res) ==
  Cardinality({k \in CallsTo(r, name) : r.lib.calls[k].res = res})

NotFoundErrors == {InvalidHandle, Err("Error", "closeDocument: invalid handle")}

RegenerationError ==
  Err("Error", "saveDocument: FPDFPage_GenerateContent failed for a dirty page")

\* -------------------------------------------------------------- C1 ----

\* C1: once closeDocument(h) has succeeded, every later operation on h fails
\* with the not-found error and leaves the registry and the page cache
\* unchanged.
C1_ClosedHandleNotFound ==
  \A x \in Outcomes(Cur) :
    x.h \in ClosedHandles(Cur) =>
      /\ x.r.err \in NotFoundErrors
      /\ x.r.documents = g_documents
      /\ x.r.cache = g_pageCache

\* -------------------------------------------------------------- C2 ----

\* C2: after saveDocument(h) has run its flush step the cache holds no entry
\* for h, every page resource that was cached for h has been closed exactly
\* once, and every entry that was dirty has been regenerated exactly once.
C2_FlushClosesAndRegeneratesOnce ==
  \A x \in SaveOutcomes(Cur) :
    x.h \in DOMAIN g_documents =>
      /\ x.h \notin DOMAIN x.r.cache
      /\ \A q \in PagesOf(g_pageCache, x.h) :
           CallCount(x.r, "FPDF_ClosePage", q) = 1 /\ q \notin DOMAIN x.r.lib.pages
      /\ \A q \in DirtyPagesOf(g_pageCache, x.h) :
           CallCount(x.r, "FPDFPage_GenerateContent", q) = 1

\* A handle with two dirty cached pages, one of them edited more than once,
\* whose save closes and regenerates both.
C2_Witness ==
  \E x \in SaveOutcomes(Cur) :
    /\ Cardinality(DirtyPagesOf(g_pageCache, x.h)) = 2
    /\ \E q \in PagesOf(g_pageCache, x.h) : lib.pages[q].edits = "repeatedly"
    /\ Cardinality(CallsTo(x.r, "FPDF_ClosePage")) = 2
    /\ Cardinality(CallsTo(x.r, "FPDFPage_GenerateContent")) = 2
    /\ x.h \notin DOMAIN x.r.cache

\* -------------------------------------------------------------- C3 ----

\* C3: content regeneration is invoked by no handler but saveDocument; there
\* it comes before the serialization and at most once per page, however many
\* edits the page received since the previous save.
C3_RegenerationOnlyInSave ==
  /\ \A x \in EditOutcomes(Cur) \cup ReadOutcomes(Cur) \cup CloseOutcomes(Cur)
                \cup OtherOutcomes(Cur) :
       CallsTo(x.r, "FPDFPage_GenerateContent") = {}
  /\ \A x \in SaveOutcomes(Cur) :
       /\ \A k \in CallsTo(x.r, "FPDFPage_GenerateContent"),
             m \in CallsTo(x.r, "FPDF_SaveAsCopy") : k < m
       /\ \A k \in CallsTo(x.r, "FPDFPage_GenerateContent") :
            CallCount(x.r, "FPDFPage_GenerateContent", x.r.lib.calls[k].res) = 1

\* A page edited more than once is regenerated once by the save, before the
\* serialization.
C3_Witness ==
  \E x \in SaveOutcomes(Cur) :
    \E q \in PagesOf(g_pageCache, x.h) :
      /\ lib.pages[q].edits = "repeatedly"
      /\ CallCount(x.r, "FPDFPage_GenerateContent", q) = 1
      /\ CallsTo(x.r, "FPDF_SaveAsCopy") # {}

\* -------------------------------------------------------------- C4 ----

\* C4: saveDocument(h) runs the flush before the serialization entry point;
\* when a regeneration of the flush fails, it fails with the error naming
\* content regeneration and never calls the serialization entry point.
C4_FlushBeforeSerialization ==
  \A x \in SaveOutcomes(Cur) :
    LET c == x.r.lib.calls
        failed == {k \in CallsTo(x.r, "FPDFPage_GenerateContent") : ~c[k].ok}
    IN  /\ \A m \in CallsTo(x.r, "FPDF_SaveAsCopy") :
             /\ \A k \in CallsTo(x.r, "FPDFPage_GenerateContent")
                         \cup CallsTo(x.r, "FPDF_ClosePage") : k < m
             /\ PagesOf(g_pageCache, x.h) \cap DOMAIN x.r.lib.pages = {}
             /\ x.h \notin DOMAIN x.r.cache
        /\ failed # {} =>
             /\ x.r.err = RegenerationError
             /\ CallsTo(x.r, "FPDF_SaveAsCopy") = {}

\* A save whose flush has a failing regeneration, and one on the same state
\* whose flush succeeds and which goes on to serialize.
C4_Witness ==
  /\ \E x \in SaveOutcomes(Cur) :
       /\ \E k \in CallsTo(x.r, "FPDFPage_GenerateContent") : ~x.r.lib.calls[k].ok
       /\ x.r.err = RegenerationError
  /\ \E x \in SaveOutcomes(Cur) :
       /\ CallsTo(x.r, "FPDFPage_GenerateContent") # {}
       /\ CallsTo(x.r, "FPDF_SaveAsCopy") # {}

\* -------------------------------------------------------------- C5 ----

\* The results of saveDocument(h) called twice in succession from state s.
SaveTwice(s, h) ==
  {<<i1, SaveResult(s, i1), i2, SaveResult(SaveResult(s, i1), i2)>> :
     i1 \in {i \in SaveInputs(s) : i.handle = h},
     i2 \in {i \in [handle : {h}, regenFails : SUBSET (0..(FPDF_GetPageCount(1) - 1)),
                    saveOk : BOOLEAN] : i.regenFails # {} => i.saveOk}}

\* C5 as the spec states it: saveDocument(h) called twice in succession on an
\* open handle succeeds both times, and the second call's flush processes no
\* dirty page.
C5_SaveTwiceBothSucceed ==
  \A h \in DOMAIN g_documents :
    \A t \in SaveTwice(Cur, h) :
      /\ t[2].err = NoError
      /\ t[4].err = NoError
      /\ CallsTo(t[4], "FPDFPage_GenerateContent") = {}

\* C5, amended: of two saveDocument(h) in succession on an open handle the
\* second one's flush regenerates and closes no page, because the first left
\* no cache entry for h, so the second never fails with the regeneration
\* error; the first succeeds exactly when no regeneration fails and the
\* serialization succeeds, the second exactly when its serialization succeeds.
C5_SecondSaveFlushesNothing ==
  \A h \in DOMAIN g_documents :
    \A t \in SaveTwice(Cur, h) :
      /\ h \notin DOMAIN t[2].cache
      /\ CallsTo(t[4], "FPDFPage_GenerateContent") = {}
      /\ CallsTo(t[4], "FPDF_ClosePage") = {}
      /\ t[4].err # RegenerationError
      /\ (t[2].err = NoError) <=>
           (t[1].regenFails = {} /\ t[1].saveOk)
      /\ (t[4].err = NoError) <=> t[3].saveOk
      /\ t[4].err = NoError => Cardinality(CallsTo(t[4], "FPDF_SaveAsCopy")) = 1

\* Two saves in a row on a handle with a dirty page: the first regenerates
\* it and succeeds, the second succeeds without regenerating.
C5_Witness ==
  \E h \in DOMAIN g_documents :
    \E t \in SaveTwice(Cur, h) :
      /\ CallsTo(t[2], "FPDFPage_GenerateContent") # {}
      /\ t[2].err = NoError
      /\ t[4].err = NoError

\* -------------------------------------------------------------- C6 ----

\* The pages a handler loaded and the pages it closed.
LoadedPages(r) ==
  {r.lib.calls[k].res : k \in {j \in CallsTo(r, "FPDF_LoadPage") : r.lib.calls[j].ok}}

ClosedPages(r) == {r.lib.calls[k].res : k \in CallsTo(r, "FPDF_ClosePage")}

\* C6: a page resource is owned by the cache or by the one handler that
\* loaded it, never both: no cache entry shares its resource, every cached
\* resource is open, no handler closes a resource twice or closes one whose
\* entry stays in the cache, a handler that found the page in the cache
\* leaves the resource open, and the library never sees a call on a
\* resource that is not open.
C6_SingleOwnership ==
  /\ ~lib.ub
  /\ CachePages(g_pageCache) \subseteq DOMAIN lib.pages
  /\ Cardinality(CachePages(g_pageCache)) = Cardinality(Entries(g_pageCache))
  /\ \A x \in Outcomes(Cur) \cup OtherOutcomes(Cur) :
       /\ ~x.r.lib.ub
       /\ \A q \in ClosedPages(x.r) :
            /\ CallCount(x.r, "FPDF_ClosePage", q) = 1
            /\ q \notin CachePages(x.r.cache)
       /\ \A q \in LoadedPages(x.r) :
            (q \in CachePages(x.r.cache)) # (q \in ClosedPages(x.r))
       /\ x.op \notin {"saveDocument", "closeDocument", "Cleanup"} =>
            ClosedPages(x.r) \cap CachePages(g_pageCache) = {}

\* On one handle, a render that loads a page of its own and closes it, and a
\* render that takes the page from the cache and closes nothing.
C6_Witness ==
  \E x, y \in ReadOutcomes(Cur) :
    /\ x.h = y.h /\ x.op = "renderPage" /\ y.op = "renderPage"
    /\ x.r.err = NoError /\ y.r.err = NoError
    /\ LoadedPages(x.r) # {} /\ ClosedPages(x.r) = LoadedPages(x.r)
    /\ CallsTo(y.r, "FPDF_RenderPageBitmap") # {}
    /\ LoadedPages(y.r) = {} /\ ClosedPages(y.r) = {}

\* -------------------------------------------------------------- C7 ----

\* C7: after any handler returns, with or without an error, the open page
\* resources are exactly the resources the cache entries hold.
C7_AcquireReleasePaired ==
  /\ DOMAIN lib.pages = CachePages(g_pageCache)
  /\ \A x \in Outcomes(Cur) : DOMAIN x.r.lib.pages = CachePages(x.r.cache)

\* While the cache holds a page, a handler loads another page, fails after
\* the load and closes what it loaded.
C7_Witness ==
  \E x \in Outcomes(Cur) :
    /\ g_pageCache # EmptyMap
    /\ x.r.err # NoError
    /\ LoadedPages(x.r) # {}
    /\ LoadedPages(x.r) = ClosedPages(x.r)
    /\ x.r.cache = g_pageCache

\* -------------------------------------------------------------- C8 ----

\* C8: every cache entry belongs to a handle of the registry, in every state
\* and after every handler; a handler that removes a handle from the
\* registry leaves no entry for it.
C8_CacheEntriesOfOpenHandles ==
  /\ DOMAIN g_pageCache \subseteq DOMAIN g_documents
  /\ \A x \in Outcomes(Cur) \cup OtherOutcomes(Cur) :
       /\ DOMAIN x.r.cache \subseteq DOMAIN x.r.documents
       /\ \A h \in DOMAIN g_documents \ DOMAIN x.r.documents :
            /\ h \notin DOMAIN x.r.cache
            /\ PagesOf(g_pageCache, h) \cap DOMAIN x.r.lib.pages = {}

\* closeDocument on a handle with cache entries removes the entries and the
\* handle.
C8_Witness ==
  \E x \in CloseOutcomes(Cur) :
    /\ x.h \in DOMAIN g_pageCache
    /\ x.r.err = NoError
    /\ x.h \notin DOMAIN x.r.documents
    /\ x.h \notin DOMAIN x.r.cache

\* -------------------------------------------------------------- C9 ----

Dirty(cache, handle, pageIndex) ==
  IsCached(cache, handle, pageIndex) /\ cache[handle][pageIndex].dirty

\* An open page resource of the document's page carries a mutation its
\* content stream lacks.
Edited(L, doc, pageIndex) ==
  \E q \in DOMAIN L.pages : q[1] = doc /\ q[2] = pageIndex /\ L.pages[q].edits # "none"

DirtyIffEdited(documents, cache, L) ==
  \A h \in DOMAIN documents :
    \A i \in 0..(FPDF_GetPageCount(documents[h]) - 1) :
      Dirty(cache, h, i) <=> Edited(L, documents[h], i)

\* C9: for every page of an open document the dirty flag is true exactly
\* when an edit has been applied to the page's object graph in memory since
\* its load or its last regeneration, in every state and after every edit
\* and every save, those whose regeneration fails included.
C9_DirtyIffEdited ==
  /\ DirtyIffEdited(g_documents, g_pageCache, lib)
  /\ \A x \in EditOutcomes(Cur) \cup SaveOutcomes(Cur) :
       DirtyIffEdited(x.r.documents, x.r.cache, x.r.lib)

\* A document with one dirty page edited more than once and one page never
\* edited, and a save of it whose regeneration fails.
C9_Witness ==
  \E x \in SaveOutcomes(Cur) :
    /\ x.h \in DOMAIN g_documents
    /\ Dirty(g_pageCache, x.h, 0) /\ ~Dirty(g_pageCache, x.h, 1)
    /\ lib.pages[g_pageCache[x.h][0].page].edits = "repeatedly"
    /\ x.r.err = RegenerationError
    /\ ~Dirty(x.r.cache, x.h, 0)

\* ------------------------------------------------------------- C10 ----

\* The edit handlers called with too few arguments or a wrong type.
BadArgsEdits(s) ==
  {Tagged("editTextObject", NoHandle, EditTextObject(s, FALSE, NoHandle, 0, 0, TRUE, TRUE)),
   Tagged("replaceImageObject", NoHandle,
          ReplaceImageObject(s, FALSE, NoHandle, 0, 0, "jpeg", TRUE, TRUE)),
   Tagged("replaceImageObjectBitmap", NoHandle,
          ReplaceImageObjectBitmap(s, FALSE, NoHandle, 0, 0, 0, 1, 1, 4, TRUE, TRUE, TRUE))}

\* C10: an edit handler that fails leaves the page cache as it was before
\* the call and has closed the page it loaded, if it loaded one.
C10_FailedEditLeavesCache ==
  \A x \in EditOutcomes(Cur) \cup BadArgsEdits(Cur) :
    x.r.err # NoError =>
      /\ x.r.cache = g_pageCache
      /\ LoadedPages(x.r) \subseteq ClosedPages(x.r)
      /\ DOMAIN x.r.lib.pages = DOMAIN lib.pages

\* With a page in the cache, edits fail for each of the reasons: unknown
\* handle, page load failure, object id out of range, wrong object kind,
\* unsupported format, mutation failure on a page loaded for the call and
\* on a cached page.
C10_Witness ==
  /\ g_pageCache # EmptyMap
  /\ \E x \in EditOutcomes(Cur) : x.r.err = InvalidHandle
  /\ \E x \in EditOutcomes(Cur) :
       x.r.err = Err("Error", "editTextObject: failed to load page")
  /\ \E x \in EditOutcomes(Cur) :
       x.r.err.class = "RangeError" /\ x.r.err.range # NoRange /\ LoadedPages(x.r) # {}
  /\ \E x \in EditOutcomes(Cur) : x.r.err.class = "TypeError" /\ LoadedPages(x.r) # {}
  /\ \E x \in EditOutcomes(Cur) :
       x.r.err = Err("Error", "replaceImageObject: only 'jpeg' format is currently supported")
  /\ \E x \in EditOutcomes(Cur) :
       /\ x.r.err = Err("Error", "editTextObject: FPDFText_SetText failed")
       /\ LoadedPages(x.r) # {} /\ LoadedPages(x.r) = ClosedPages(x.r)
  /\ \E x \in EditOutcomes(Cur) :
       /\ x.r.err = Err("Error", "editTextObject: FPDFText_SetText failed")
       /\ LoadedPages(x.r) = {} /\ ClosedPages(x.r) = {}

\* ------------------------------------------------------------- C11 ----

\* DiscardCachedPages(handle) run in state s, as a handler result.
Discarded(s, handle) ==
  LET r0 == Entry(s)
      d == DiscardCachedPages(r0.cache, r0.lib, handle)
  IN  [r0 EXCEPT !.cache = d.cache, !.lib = d.lib]

\* C11: DiscardCachedPages(h) closes every cached page resource of h exactly
\* once, calls content regeneration on none whatever the dirty flags, and
\* removes every entry of h; it touches no page and no entry of another
\* handle.
C11_DiscardClosesWithoutRegeneration ==
  \A h \in HandleInputs :
    LET r == Discarded(Cur, h)
    IN  /\ h \notin DOMAIN r.cache
        /\ \A q \in PagesOf(g_pageCache, h) :
             CallCount(r, "FPDF_ClosePage", q) = 1 /\ q \notin DOMAIN r.lib.pages
        /\ ClosedPages(r) = PagesOf(g_pageCache, h)
        /\ Len(r.lib.calls) = Cardinality(PagesOf(g_pageCache, h))
        /\ \A k \in DOMAIN g_pageCache \ {h} :
             k \in DOMAIN r.cache /\ r.cache[k] = g_pageCache[k]
        /\ ~r.lib.ub

\* A handle with two dirty cached pages, both closed and none regenerated,
\* here inside closeDocument.
C11_Witness ==
  \E x \in CloseOutcomes(Cur) :
    /\ Cardinality(DirtyPagesOf(g_pageCache, x.h)) = 2
    /\ ClosedPages(Discarded(Cur, x.h)) = DirtyPagesOf(g_pageCache, x.h)
    /\ ClosedPages(x.r) = DirtyPagesOf(g_pageCache, x.h)
    /\ CallsTo(x.r, "FPDFPage_GenerateContent") = {}
    /\ x.h \notin DOMAIN x.r.cache

\* ------------------------------------------------------------- C12 ----

\* closeDocument(handle) released everything of the handle that state s held.
ClosedCleanly(s, handle, r) ==
  /\ r.err = NoError
  /\ handle \notin DOMAIN r.documents
  /\ handle \notin DOMAIN r.cache
  /\ s.documents[handle] \notin r.lib.docs
  /\ \A q \in DOMAIN r.lib.pages : q[1] # s.documents[handle]
  /\ Cardinality(CallsTo(r, "FPDF_CloseDocument")) = 1
  /\ ~r.lib.ub

\* The outcomes on handle h of state s that failed.
FailedOn(s, h) ==
  {x \in EditOutcomes(s) \cup ReadOutcomes(s) \cup SaveOutcomes(s) :
     x.h = h /\ x.r.err # NoError}

\* C12: in every reachable state closeDocument(h) on an open handle h
\* succeeds and leaves no page resource of h open, the document of h
\* destroyed and h absent from the registry and the cache; so it does right
\* after a save of h that failed.
C12_CloseAlwaysReleases ==
  \A h \in DOMAIN g_documents :
    /\ ClosedCleanly(Cur, h, CloseDocument(Cur, TRUE, h))
    /\ \A y \in SaveOutcomes(Cur) :
         y.h = h /\ y.r.err # NoError =>
           ClosedCleanly(y.r, h, CloseDocument(y.r, TRUE, h))

\* A handle with a dirty cached page on which an edit, a render and a save
\* fail; closeDocument right after each of them succeeds and closes the
\* cached page where the failed call left it open.
C12_Witness ==
  \E h \in DOMAIN g_documents :
    /\ DirtyPagesOf(g_pageCache, h) # {}
    /\ \A op \in {"editTextObject", "renderPage", "saveDocument"} :
         \E y \in FailedOn(Cur, h) :
           /\ y.op = op
           /\ y.r.err # InvalidHandle
           /\ ClosedCleanly(y.r, h, CloseDocument(y.r, TRUE, h))
           /\ ClosedPages(CloseDocument(y.r, TRUE, h)) = PagesOf(y.r.cache, h)
    /\ ClosedPages(CloseDocument(Cur, TRUE, h)) # {}

\* ------------------------------------------------------------- C13 ----

\* The handles openDocument has returned so far: it issues g_nextHandle and
\* steps it, and nothing else assigns it.
IssuedHandles(s) == FirstHandle..(s.nextHandle - 1)

\* C13: a successful openDocument returns a handle that no earlier
\* openDocument returned, closed handles included, and registers the new
\* document under it; a failed openDocument returns no handle and leaves
\* the registry and the handle counter unchanged.  No other handler moves
\* the counter or adds a handle, so the handles returned so far stay the
\* ones below the counter.
C13_HandlesNeverReused ==
  /\ DOMAIN g_documents \subseteq IssuedHandles(Cur)
  /\ \A argsOk, loadOk \in BOOLEAN :
       LET r == OpenDocument(Cur, argsOk, loadOk)
       IN  IF argsOk /\ loadOk
           THEN /\ r.err = NoError
                /\ r.ret \notin IssuedHandles(Cur)
                /\ r.ret \notin DOMAIN g_documents
                /\ IssuedHandles(r) = IssuedHandles(Cur) \cup {r.ret}
                /\ DOMAIN r.documents = DOMAIN g_documents \cup {r.ret}
                /\ \A h \in DOMAIN g_documents : r.documents[h] = g_documents[h]
                /\ r.documents[r.ret] \notin {g_documents[h] : h \in DOMAIN g_documents}
                /\ r.documents[r.ret] \in r.lib.docs
           ELSE /\ r.err # NoError
                /\ r.ret = Entry(Cur).ret
                /\ r.documents = g_documents
                /\ r.nextHandle = g_nextHandle
                /\ r.lib.docs = lib.docs
  /\ \A x \in Outcomes(Cur) \cup {Tagged("Cleanup", NoHandle, Cleanup(Cur))} :
       /\ x.r.nextHandle = g_nextHandle
       /\ DOMAIN x.r.documents \subseteq DOMAIN g_documents

\* With one handle closed and another open, openDocument succeeds and
\* returns a handle that is neither, and a failing openDocument changes
\* nothing.
C13_Witness ==
  /\ ClosedHandles(Cur) # {}
  /\ g_documents # EmptyMap
  /\ LET r == OpenDocument(Cur, TRUE, TRUE)
     IN  /\ r.err = NoError
         /\ r.ret \notin ClosedHandles(Cur) \cup DOMAIN g_documents
         /\ r.ret \in DOMAIN r.documents
  /\ OpenDocument(Cur, TRUE, FALSE).err = Err("Error", "GetPdfiumErrorMessage")
  /\ OpenDocument(Cur, TRUE, FALSE).nextHandle = g_nextHandle

\* ------------------------------------------------------------- C14 ----

MutationPrimitives ==
  {"FPDFText_SetText", "FPDFImageObj_LoadJpegFileInline", "FPDFImageObj_SetBitmap"}

\* The edits of state s, each with the handle and page index passed.
EditCalls(s) ==
  {[h |-> i.handle, p |-> i.pageIndex, r |-> TextResult(s, i)] : i \in TextInputs}
  \cup {[h |-> i.handle, p |-> i.pageIndex, r |-> ImageResult(s, i)] : i \in ImageInputs}
  \cup {[h |-> i.handle, p |-> i.pageIndex, r |-> BitmapResult(s, i)] : i \in BitmapEditInputs}

\* renderPage and listPageObjects on page (h, p) of state s.
ReadsOf(s, h, p) ==
  {RenderResult(s, i) : i \in {j \in RenderInputs : j.handle = h /\ j.pageIndex = p}}
  \cup {ListResult(s, i) : i \in {j \in ListInputs : j.handle = h /\ j.pageIndex = p}}

\* The page resources the library calls of r were made on.
PagesUsed(r) ==
  {r.lib.calls[k].res : k \in {j \in DOMAIN r.lib.calls : Len(r.lib.calls[j].res) = 3}}

\* Result r of a read of page (h, p) in state s used the cached resource
\* and left it and the cache alone.
ReadFromCache(s, h, p, r) ==
  /\ LoadedPages(r) = {}
  /\ ClosedPages(r) = {}
  /\ CallsTo(r, "FPDFPage_GenerateContent") = {}
  /\ PagesUsed(r) \subseteq {s.cache[h][p].page}
  /\ r.err = NoError => PagesUsed(r) = {s.cache[h][p].page}
  /\ r.cache = s.cache
  /\ r.lib.pages = s.lib.pages

\* C14: right after a successful edit of page (h, p), renderPage(h, p, s)
\* and listPageObjects(h, p) work on the page resource the edit mutated,
\* load and close no page, call no content regeneration and leave the
\* resource open and the cache as the edit left it; so they do on every
\* cached page of a reachable state, where only successful edits have put
\* entries and only a save or a close takes them out.
C14_ReadAfterEditUsesCachedPage ==
  /\ \A e \in EditCalls(Cur) :
       e.r.err = NoError =>
         /\ IsCached(e.r.cache, e.h, e.p)
         /\ \E k \in DOMAIN e.r.lib.calls :
              /\ e.r.lib.calls[k].call \in MutationPrimitives
              /\ e.r.lib.calls[k].ok
              /\ e.r.lib.calls[k].res = e.r.cache[e.h][e.p].page
         /\ e.r.cache[e.h][e.p].page \in DOMAIN e.r.lib.pages
         /\ \A r \in ReadsOf(e.r, e.h, e.p) : ReadFromCache(e.r, e.h, e.p, r)
  /\ \A c \in Entries(g_pageCache) :
       \A r \in ReadsOf(Cur, c[1], c[2]) : ReadFromCache(Cur, c[1], c[2], r)

\* An edit of a page that was not cached, followed by a render and a list
\* of the page that succeed on the resource the edit loaded, and by a
\* render that fails.
C14_Witness ==
  \E e \in EditCalls(Cur) :
    /\ e.r.err = NoError
    /\ ~IsCached(g_pageCache, e.h, e.p)
    /\ LoadedPages(e.r) = {e.r.cache[e.h][e.p].page}
    /\ \E r \in ReadsOf(e.r, e.h, e.p) :
         /\ r.err = NoError
         /\ CallsTo(r, "FPDF_RenderPageBitmap") # {}
         /\ PagesUsed(r) = LoadedPages(e.r)
    /\ \E r \in ReadsOf(e.r, e.h, e.p) :
         /\ r.err = NoError
         /\ CallsTo(r, "FPDFPage_CountObjects") # {}
         /\ PagesUsed(r) = LoadedPages(e.r)
    /\ \E r \in ReadsOf(e.r, e.h, e.p) : r.err # NoError

\* ------------------------------------------------------------- C15 ----

\* The page resources CachePageDirty may be handed for page (doc, pageIndex):
\* the open ones and a newly loaded one.
PageResources(L, doc, pageIndex) ==
  {q \in DOMAIN L.pages : q[1] = doc /\ q[2] = pageIndex}
  \cup {FreshPage(L.pages, doc, pageIndex)}

\* C15: AcquirePage(h, i) right after CachePageDirty(h, i, r) returns r
\* with fromCache = true and makes no library call, whether or not the
\* cache had an entry for (h, i) before and whether or not a load would
\* succeed.
C15_AcquireAfterCachePageDirty ==
  \A h \in DOMAIN g_documents, i \in PageInputs, loadOk \in BOOLEAN :
    \A r \in PageResources(lib, g_documents[h], i) :
      LET L == Entry(Cur).lib
          cache == CachePageDirty(g_pageCache, h, i, r)
          a == AcquirePage(cache, L, h, g_documents[h], i, loadOk)
      IN  /\ a.page = r
          /\ a.fromCache
          /\ a.lib = L
          /\ cache[h][i] = CachedPage(r, TRUE)

\* CachePageDirty overwrites an entry that holds another resource, and
\* AcquirePage returns the new one.
C15_Witness ==
  \E c \in Entries(g_pageCache) :
    \E r \in PageResources(lib, g_documents[c[1]], c[2]) :
      LET cache == CachePageDirty(g_pageCache, c[1], c[2], r)
          a == AcquirePage(cache, Entry(Cur).lib, c[1], g_documents[c[1]], c[2], TRUE)
      IN  /\ r # g_pageCache[c[1]][c[2]].page
          /\ a.page = r
          /\ a.fromCache

\* ------------------------------------------------------------- C16 ----

\* The handlers that take a page index, called with one outside
\* [0, pageCount - 1] on an open handle.
PageOutOfRangeCalls(s) ==
  {x \in EditCalls(s)
         \cup {[h |-> i.handle, p |-> i.pageIndex, r |-> RenderResult(s, i)] : i \in RenderInputs}
         \cup {[h |-> i.handle, p |-> i.pageIndex, r |-> ListResult(s, i)] : i \in ListInputs} :
     x.h \in DOMAIN s.documents /\ ~InRange(x.p)}

\* C16: every handler that takes a page index, given one outside
\* [0, pageCount - 1] on an open handle, fails with a RangeError whose
\* message states the valid range.
C16_PageIndexRangeError ==
  \A x \in PageOutOfRangeCalls(Cur) :
    /\ x.r.err.class = "RangeError"
    /\ x.r.err.range = <<0, FPDF_GetPageCount(g_documents[x.h]) - 1>>

\* ------------------------------------------------------------- C17 ----

\* editTextObject on an open handle and a page that loads, with an object
\* id outside [0, count - 1].
ObjectOutOfRangeInputs(s) ==
  {i \in TextInputs :
     /\ i.handle \in DOMAIN s.documents
     /\ InRange(i.pageIndex)
     /\ i.fault # "load"
     /\ i.objectId \notin 0..(Len(ObjTypes) - 1)}

\* C17: editTextObject with an object id outside [0, count - 1] of the
\* page's objects fails with a RangeError stating the bounds [0, count - 1],
\* calls no mutation primitive, leaves every open page's object graph and
\* the cache as they were and closes the page if it loaded it.
C17_ObjectIdRangeError ==
  \A i \in ObjectOutOfRangeInputs(Cur) :
    LET r == TextResult(Cur, i)
    IN  /\ r.err = ErrRange("RangeError", "editTextObject: objectId out of range",
                            0, Len(ObjTypes) - 1)
        /\ \A k \in DOMAIN r.lib.calls : r.lib.calls[k].call \notin MutationPrimitives
        /\ r.cache = g_pageCache
        /\ r.lib.pages = lib.pages
        /\ LoadedPages(r) = ClosedPages(r)

\* An object id below and one above the range, on a cached page and on a
\* page loaded for the call.
C17_Witness ==
  \E i, j \in ObjectOutOfRangeInputs(Cur) :
    /\ i.handle = j.handle
    /\ i.objectId < 0 /\ j.objectId = Len(ObjTypes)
    /\ IsCached(g_pageCache, i.handle, i.pageIndex)
    /\ ~IsCached(g_pageCache, j.handle, j.pageIndex)
    /\ TextResult(Cur, i).err.class = "RangeError"
    /\ LoadedPages(TextResult(Cur, i)) = {}
    /\ TextResult(Cur, j).err.range = <<0, Len(ObjTypes) - 1>>
    /\ LoadedPages(TextResult(Cur, j)) # {}

\* ------------------------------------------------------------- C18 ----

\* The class of the exception each kind of failure is thrown with: wrong
\* argument count or type, a value out of range, a failure of the library.
ValidationClass == "TypeError"
RangeClass == "RangeError"
LibraryClass == "Error"

\* An error of a kind of its own, apart from those three.
IsStateError(e) ==
  e # NoError /\ e.class \notin {ValidationClass, RangeClass, LibraryClass}

\* replaceImageObject with a format other than "jpeg" and everything else
\* in order: an open handle, a page that loads, an image object.
UnsupportedFormatInputs(s) ==
  {i \in ImageInputs :
     /\ i.fmt # "jpeg"
     /\ i.handle \in DOMAIN s.documents
     /\ InRange(i.pageIndex)
     /\ i.fault = "none"
     /\ IsKind(i.objectId, "image")}

\* C18: replaceImageObject with a format other than the JPEG one fails with
\* a StateError and leaves the page's cache entry untouched.
C18_UnsupportedFormatStateError ==
  \A i \in UnsupportedFormatInputs(Cur) :
    LET r == ImageResult(Cur, i)
    IN  /\ IsStateError(r.err)
        /\ r.cache = g_pageCache

\* ------------------------------------------------------------- C19 ----

\* The edits of an object in range that is not of the kind the handler
\* edits, on an open handle and a page that loads.
WrongKindResults(s) ==
  {TextResult(s, i) : i \in {j \in TextInputs :
     /\ j.handle \in DOMAIN s.documents /\ InRange(j.pageIndex) /\ j.fault = "none"
     /\ j.objectId \in 0..(Len(ObjTypes) - 1) /\ ~IsKind(j.objectId, "text")}}
  \cup {ImageResult(s, i) : i \in {j \in ImageInputs :
     /\ j.handle \in DOMAIN s.documents /\ InRange(j.pageIndex) /\ j.fault = "none"
     /\ j.objectId \in 0..(Len(ObjTypes) - 1) /\ ~IsKind(j.objectId, "image")}}
  \cup {BitmapResult(s, i) : i \in {j \in BitmapEditInputs :
     /\ j.handle \in DOMAIN s.documents /\ InRange(j.pageIndex) /\ j.fault = "none"
     /\ j.b.bufLen >= j.expectedSize
     /\ j.objectId \in 0..(Len(ObjTypes) - 1) /\ ~IsKind(j.objectId, "image")}}

\* C19: an edit of an object in range of the wrong kind fails with a
\* StateError, a kind apart from the validation, range and library errors,
\* and mutates nothing.
C19_WrongKindStateError ==
  \A r \in WrongKindResults(Cur) :
    /\ IsStateError(r.err)
    /\ \A k \in DOMAIN r.lib.calls : r.lib.calls[k].call \notin MutationPrimitives

\* ------------------------------------------------------------- C20 ----

\* bufLen < width * height * 4 over the integers, for a buffer length >= 0,
\* without leaving 32 bits.
BufferTooSmall(bufLen, width, height) == bufLen \div 4 < width * height

\* C20: replaceImageObjectBitmap is rejected by the size check, with no page
\* acquired and no mutation, whenever the buffer is shorter than
\* width * height * 4, overflowing products included.
C20_ShortBufferRejected ==
  \A i \in BitmapEditInputs :
    BufferTooSmall(i.b.bufLen, i.b.width, i.b.height) =>
      LET r == BitmapResult(Cur, i)
      IN  /\ r.err # NoError
          /\ PagesUsed(r) = {}
          /\ r.cache = g_pageCache

\* ------------------------------------------------------------- C21 ----

\* FlushAndCloseCachedPages(handle) run in state s with regeneration failing
\* on the pages of regenFails: the handler result with the value returned.
Flushed(s, handle, regenFails) ==
  LET r0 == Entry(s)
      f == FlushAndCloseCachedPages(r0.cache, r0.lib, handle, regenFails)
  IN  [r0 EXCEPT !.cache = f.cache, !.lib = f.lib, !.ret = f.allOk]

PageIndexSets == SUBSET (0..(FPDF_GetPageCount(1) - 1))

\* The indices of the dirty entries of the handle.
DirtyIndices(cache, handle) ==
  IF handle \in DOMAIN cache
  THEN {i \in DOMAIN cache[handle] : cache[handle][i].dirty} ELSE {}

\* C21: FlushAndCloseCachedPages(h) goes on after a regeneration that
\* fails: every dirty entry of h is regenerated once, every entry's
\* resource is closed once and every entry of h removed, whichever
\* regenerations fail; it returns true exactly when none failed, and so
\* when h has no entry.
C21_FlushIsBestEffort ==
  \A h \in HandleInputs, fails \in PageIndexSets :
    LET r == Flushed(Cur, h, fails)
    IN  /\ \A q \in DirtyPagesOf(g_pageCache, h) :
             CallCount(r, "FPDFPage_GenerateContent", q) = 1
        /\ \A q \in PagesOf(g_pageCache, h) :
             CallCount(r, "FPDF_ClosePage", q) = 1 /\ q \notin DOMAIN r.lib.pages
        /\ h \notin DOMAIN r.cache
        /\ r.ret <=> (fails \cap DirtyIndices(g_pageCache, h) = {})
        /\ h \notin DOMAIN g_pageCache => r.ret /\ r.lib.calls = <<>>

\* Two dirty pages, the regeneration of the first fails: the second is
\* regenerated after it, both are closed and false is returned.
C21_Witness ==
  \E h \in DOMAIN g_pageCache :
    LET r == Flushed(Cur, h, {0})
        c == r.lib.calls
    IN  /\ DirtyIndices(g_pageCache, h) = {0, 1}
        /\ \E k, m \in CallsTo(r, "FPDFPage_GenerateContent") :
             k < m /\ ~c[k].ok /\ c[m].ok /\ c[m].res = g_pageCache[h][1].page
        /\ ClosedPages(r) = PagesOf(g_pageCache, h)
        /\ ~r.ret

\* ------------------------------------------------------------- C22 ----

\* In result r of a handler run in state s, every FPDF_CloseDocument comes
\* after the FPDF_ClosePage of every page of the document that was open.
PagesClosedBeforeDocument(s, r) ==
  \A m \in CallsTo(r, "FPDF_CloseDocument") :
    \A q \in DOMAIN s.lib.pages :
      q[1] = r.lib.calls[m].res[1] =>
        \E k \in CallsTo(r, "FPDF_ClosePage") : k < m /\ r.lib.calls[k].res = q

\* C22: a document resource is never destroyed while one of its pages is
\* open.  Every open page belongs to an open document; closeDocument closes
\* the handle's cached pages, regenerating none, before it destroys the
\* document and removes the handle; Cleanup closes every cached page of
\* every handle, regenerating none, before it closes any document, and
\* the documents before it destroys the library, and leaves both maps empty.
C22_PagesClosedBeforeDocument ==
  /\ \A q \in DOMAIN lib.pages : q[1] \in lib.docs
  /\ \A x \in CloseOutcomes(Cur) :
       /\ PagesClosedBeforeDocument(Cur, x.r)
       /\ CallsTo(x.r, "FPDFPage_GenerateContent") = {}
       /\ ~x.r.lib.ub
       /\ x.r.err = NoError =>
            /\ ClosedPages(x.r) = PagesOf(g_pageCache, x.h)
            /\ x.r.lib.calls[Len(x.r.lib.calls)] = Call("FPDF_CloseDocument", <<g_documents[x.h]>>, TRUE)
            /\ x.h \notin DOMAIN x.r.documents
  /\ LET r == Cleanup(Cur)
     IN  /\ PagesClosedBeforeDocument(Cur, r)
         /\ \A k \in CallsTo(r, "FPDF_ClosePage"), m \in CallsTo(r, "FPDF_CloseDocument") : k < m
         /\ \A m \in CallsTo(r, "FPDF_CloseDocument"), n \in CallsTo(r, "FPDF_DestroyLibrary") : m < n
         /\ CallsTo(r, "FPDFPage_GenerateContent") = {}
         /\ ClosedPages(r) = CachePages(g_pageCache)
         /\ Cardinality(CallsTo(r, "FPDF_ClosePage")) = Cardinality(Entries(g_pageCache))
         /\ {r.lib.calls[m].res[1] : m \in CallsTo(r, "FPDF_CloseDocument")}
              = {g_documents[h] : h \in DOMAIN g_documents}
         /\ r.cache = EmptyMap /\ r.documents = EmptyMap
         /\ r.lib.docs = {} /\ DOMAIN r.lib.pages = {}
         /\ ~r.lib.ub

\* Two open handles with a cached page each: closeDocument of one closes
\* its page and then its document; Cleanup closes the two pages, then the
\* two documents, then the library.
C22_Witness ==
  /\ Cardinality(DOMAIN g_pageCache) = 2
  /\ \E x \in CloseOutcomes(Cur) :
       /\ x.r.err = NoError
       /\ ClosedPages(x.r) # {}
       /\ Len(x.r.lib.calls) = Cardinality(ClosedPages(x.r)) + 1
  /\ LET r == Cleanup(Cur)
     IN  /\ Cardinality(CallsTo(r, "FPDF_ClosePage")) >= 2
         /\ Cardinality(CallsTo(r, "FPDF_CloseDocument")) = 2
         /\ r.lib.calls[Len(r.lib.calls)].call = "FPDF_DestroyLibrary"

\* ------------------------------------------------------------- C23 ----

\* renderPage, listPageObjects and getPageCount called with too few
\* arguments or a wrong type.
BadArgsReads(s) ==
  {Tagged("renderPage", NoHandle, RenderPage(s, FALSE, NoHandle, 0, <<2, 1>>, TRUE, TRUE)),
   Tagged("listPageObjects", NoHandle, ListPageObjects(s, FALSE, NoHandle, 0, TRUE)),
   Tagged("getPageCount", NoHandle, GetPageCount(s, FALSE, NoHandle))}

\* C23: renderPage, listPageObjects and getPageCount, succeeding or
\* failing, leave the registry, the handle counter and the cache (entries,
\* resources, dirty flags) as they were; a page they load is closed before
\* they return and is not cached, and no other page is opened, closed or
\* mutated.
C23_ReadsLeaveRegistryAndCache ==
  \A x \in ReadOutcomes(Cur) \cup BadArgsReads(Cur) :
    /\ x.r.documents = g_documents
    /\ x.r.nextHandle = g_nextHandle
    /\ x.r.cache = g_pageCache
    /\ LoadedPages(x.r) = ClosedPages(x.r)
    /\ LoadedPages(x.r) \cap CachePages(x.r.cache) = {}
    /\ x.r.lib.pages = lib.pages
    /\ x.r.lib.docs = lib.docs

\* Beside a dirty cached page, a render and a list that load the other
\* page, succeed and close it, a render that fails after the load and
\* closes it, and a getPageCount.
C23_Witness ==
  \E h \in DOMAIN g_pageCache :
    /\ DirtyPagesOf(g_pageCache, h) # {}
    /\ \A op \in {"renderPage", "listPageObjects"} :
         \E x \in ReadOutcomes(Cur) :
           /\ x.op = op /\ x.h = h /\ x.r.err = NoError
           /\ LoadedPages(x.r) # {} /\ LoadedPages(x.r) = ClosedPages(x.r)
    /\ \E x \in ReadOutcomes(Cur) :
         /\ x.op = "renderPage" /\ x.h = h
         /\ x.r.err = Err("Error", "renderPage: FPDFBitmap_Create failed")
         /\ LoadedPages(x.r) # {} /\ LoadedPages(x.r) = ClosedPages(x.r)
    /\ \E x \in ReadOutcomes(Cur) :
         x.op = "getPageCount" /\ x.h = h /\ x.r.ret = FPDF_GetPageCount(g_documents[h])

\* ------------------------------------------------------------- C24 ----

\* The saveDocument(h) calls on s that fail because a regeneration failed,
\* each with the state it leaves.
FailedSaves(s, h) ==
  {y \in {[i |-> i, r |-> SaveResult(s, i)] : i \in {j \in SaveInputs(s) : j.handle = h}} :
     y.r.err = RegenerationError}

\* The saves of h that can follow, whatever regeneration or serialization
\* would fail in them.
NextSaves(h) ==
  {i \in [handle : {h}, regenFails : PageIndexSets, saveOk : BOOLEAN] :
     i.regenFails # {} => i.saveOk}

\* C24: a saveDocument(h) that fails on a regeneration leaves no cache
\* entry for h, every page that was cached for h closed, and h registered
\* with its document open and not serialized; a saveDocument(h) right after
\* it regenerates and closes nothing, calls the serialization once and
\* succeeds exactly when the serialization does; a page is regenerated again
\* only after an edit has cached it again.
C24_SaveAfterFailedSave ==
  \A h \in DOMAIN g_documents :
    \A y \in FailedSaves(Cur, h) :
      /\ h \notin DOMAIN y.r.cache
      /\ PagesOf(g_pageCache, h) \subseteq ClosedPages(y.r)
      /\ PagesOf(g_pageCache, h) \cap DOMAIN y.r.lib.pages = {}
      /\ \A h2 \in DOMAIN g_pageCache \ {h} : y.r.cache[h2] = g_pageCache[h2]
      /\ y.r.documents = g_documents
      /\ g_documents[h] \in y.r.lib.docs
      /\ CallsTo(y.r, "FPDF_SaveAsCopy") = {}
      /\ ~y.r.lib.ub
      /\ \A i2 \in NextSaves(h) :
           LET r2 == SaveResult(y.r, i2)
           IN  /\ CallsTo(r2, "FPDFPage_GenerateContent") = {}
               /\ CallsTo(r2, "FPDF_ClosePage") = {}
               /\ CallsTo(r2, "FPDF_LoadPage") = {}
               /\ Cardinality(CallsTo(r2, "FPDF_SaveAsCopy")) = 1
               /\ (r2.err = NoError) <=> i2.saveOk
               /\ r2.err # RegenerationError
               /\ ~r2.lib.ub
      /\ \A e \in EditCalls(y.r) :
           (e.h = h /\ e.r.err = NoError) =>
             \A i3 \in {i \in NextSaves(h) : i.regenFails = {}} :
               LET r3 == SaveResult(e.r, i3)
               IN  /\ Cardinality(CallsTo(r3, "FPDFPage_GenerateContent")) = 1
                   /\ \A k \in CallsTo(r3, "FPDFPage_GenerateContent") :
                        r3.lib.calls[k].res[2] = e.p

\* A handle with two dirty pages, a save that fails on the regeneration of
\* one of them, and a save right after it that regenerates nothing and
\* succeeds.
C24_Witness ==
  \E h \in DOMAIN g_documents :
    /\ Cardinality(DirtyPagesOf(g_pageCache, h)) >= 2
    /\ \E y \in FailedSaves(Cur, h) :
         /\ Cardinality(y.i.regenFails) = 1
         /\ Cardinality(CallsTo(y.r, "FPDFPage_GenerateContent")) = 2
         /\ \E i2 \in NextSaves(h) :
              /\ SaveResult(y.r, i2).err = NoError
              /\ CallsTo(SaveResult(y.r, i2), "FPDFPage_GenerateContent") = {}

\* ------------------------------------------------------------- C25 ----

\* No page of a document has two open page resources, and every open page
\* resource is the one its cache entry holds.
OneResourcePerPage(cache, L) ==
  /\ \A q1, q2 \in DOMAIN L.pages : (q1[1] = q2[1] /\ q1[2] = q2[2]) => q1 = q2
  /\ DOMAIN L.pages = CachePages(cache)

\* The successful edits of state s on a page that has a cache entry.
EditsOfCachedPage(s) ==
  {e \in EditCalls(s) : e.r.err = NoError /\ IsCached(s.cache, e.h, e.p)}

\* C25: a successful edit of a page (h, p) that has a cache entry writes
\* into the entry the page resource the entry already held, loads and
\* closes no page and leaves the set of open page resources as it was; in
\* every state and after every successful edit each page has at most one
\* open page resource, the one in its cache entry.
C25_OverwriteKeepsResource ==
  /\ OneResourcePerPage(g_pageCache, lib)
  /\ \A e \in EditCalls(Cur) :
       e.r.err = NoError => OneResourcePerPage(e.r.cache, e.r.lib)
  /\ \A e \in EditsOfCachedPage(Cur) :
       /\ e.r.cache[e.h][e.p] = CachedPage(g_pageCache[e.h][e.p].page, TRUE)
       /\ CallsTo(e.r, "FPDF_LoadPage") = {}
       /\ CallsTo(e.r, "FPDF_ClosePage") = {}
       /\ DOMAIN e.r.lib.pages = DOMAIN lib.pages
       /\ \A k \in DOMAIN e.r.lib.calls : e.r.lib.calls[k].res = g_pageCache[e.h][e.p].page

\* A page edited repeatedly, still held by the resource of its entry, and
\* one more successful edit of it by each of the three edit handlers beside
\* another cached page of the same handle.
C25_Witness ==
  \E h \in DOMAIN g_pageCache :
    /\ Cardinality(DOMAIN g_pageCache[h]) >= 2
    /\ \E p \in DOMAIN g_pageCache[h] :
         /\ lib.pages[g_pageCache[h][p].page].edits = "repeatedly"
         /\ \A prim \in MutationPrimitives :
              \E e \in EditsOfCachedPage(Cur) :
                /\ e.h = h /\ e.p = p
                /\ \E k \in DOMAIN e.r.lib.calls : e.r.lib.calls[k].call = prim

\* ------------------------------------------------------------- C26 ----

\* The handler result r, run in state s, left handle h2 as it was: its
\* registry entry and document, its cache entries with their resources and
\* flags, its open pages with their unsaved edits; and it made no library
\* call on the document of h2 or on a page of it.
Untouched(s, r, h2) ==
  LET doc == s.documents[h2]
  IN  /\ h2 \in DOMAIN r.documents /\ r.documents[h2] = doc
      /\ doc \in r.lib.docs
      /\ h2 \in DOMAIN r.cache <=> h2 \in DOMAIN s.cache
      /\ h2 \in DOMAIN s.cache => r.cache[h2] = s.cache[h2]
      /\ \A q \in DOMAIN s.lib.pages :
           q[1] = doc => q \in DOMAIN r.lib.pages /\ r.lib.pages[q] = s.lib.pages[q]
      /\ \A q \in DOMAIN r.lib.pages : q[1] = doc => q \in DOMAIN s.lib.pages
      /\ \A k \in DOMAIN r.lib.calls :
           r.lib.calls[k].res # <<>> => r.lib.calls[k].res[1] # doc

\* C26: an edit, a render, a listing, a page count, a save or a close
\* called with handle h, succeeding or failing, leaves every other open
\* handle h2 untouched: the cache entries of h2 (resource and dirty flag),
\* the open pages of h2 and its document are unchanged, and no page of h2
\* is regenerated, closed or otherwise passed to the library.
C26_OtherHandlesUntouched ==
  \A x \in Outcomes(Cur) :
    \A h2 \in DOMAIN g_documents \ {x.h} : Untouched(Cur, x.r, h2)

\* Two open handles with a dirty cached page each; on the first a
\* successful edit, a save that regenerates, a save whose regeneration
\* fails, a render and a close.
C26_Witness ==
  \E h, h2 \in DOMAIN g_documents :
    /\ h # h2
    /\ DirtyPagesOf(g_pageCache, h) # {} /\ DirtyPagesOf(g_pageCache, h2) # {}
    /\ \E x \in EditOutcomes(Cur) :
         x.h = h /\ x.r.err = NoError /\ x.r.cache # g_pageCache
    /\ \E x \in SaveOutcomes(Cur) :
         x.h = h /\ x.r.err = NoError /\ CallsTo(x.r, "FPDFPage_GenerateContent") # {}
    /\ \E x \in SaveOutcomes(Cur) : x.h = h /\ x.r.err = RegenerationError
    /\ \E x \in ReadOutcomes(Cur) :
         x.h = h /\ x.op = "renderPage" /\ x.r.err = NoError
    /\ \E x \in CloseOutcomes(Cur) :
         x.h = h /\ x.r.err = NoError /\ CallsTo(x.r, "FPDF_ClosePage") # {}

\* ------------------------------------------------------------- C27 ----

AllEntriesDirty(cache) == \A e \in Entries(cache) : cache[e[1]][e[2]].dirty

\* The page resources the handler result r regenerated.
RegeneratedPages(r) ==
  {r.lib.calls[k].res : k \in CallsTo(r, "FPDFPage_GenerateContent")}

\* C27: in every state, and in the state every handler leaves, every cache
\* entry has dirty = true, so the flush of saveDocument(h) invokes the
\* regeneration once on every cached page of h, whichever regenerations
\* fail, and on no other page.
C27_EveryEntryDirty ==
  /\ AllEntriesDirty(g_pageCache)
  /\ \A x \in EditOutcomes(Cur) \cup SaveOutcomes(Cur) \cup CloseOutcomes(Cur) :
       AllEntriesDirty(x.r.cache)
  /\ \A x \in SaveOutcomes(Cur) :
       x.h \in DOMAIN g_documents =>
         /\ RegeneratedPages(x.r) = PagesOf(g_pageCache, x.h)
         /\ \A q \in PagesOf(g_pageCache, x.h) :
              CallCount(x.r, "FPDFPage_GenerateContent", q) = 1

\* A handle with two cached pages and a save of it that regenerates both,
\* one of them failing; beside it an open handle with no cache entry.
C27_Witness ==
  \E h \in DOMAIN g_pageCache :
    /\ Cardinality(DOMAIN g_pageCache[h]) = 2
    /\ \E x \in SaveOutcomes(Cur) :
         /\ x.h = h
         /\ x.r.err = RegenerationError
         /\ Cardinality(RegeneratedPages(x.r)) = 2
    /\ \E h2 \in DOMAIN g_documents : h2 \notin DOMAIN g_pageCache

====
